---- MODULE Spec2Model ----
(***************************************************************************)
(* A model of the chess rules engine in src/src/lib.rs (struct ChessBoard). *)
(* Board squares are the flat indices 0..63 of the source: index 0 is a8,   *)
(* index 63 is h1, file = index % 8, rank row = index / 8.                  *)
(* Colours are the source's i8 codes: -1 white, 1 black, 0 empty.           *)
(* Piece ids: 0 none, 1 pawn, 2 rook, 3 knight, 4 bishop, 5 queen, 6 king.  *)
(*                                                                         *)
(* Every method of ChessBoard takes &mut self; its model is an operator    *)
(* from the state record s to a result R(s', ret), so that every write a   *)
(* method makes (also the ones made while a move is only being tested) is  *)
(* carried to its caller exactly as in the source.                         *)
(***************************************************************************)
EXTENDS Integers, Sequences, FiniteSets, TLC

Squares == 0..63

Abs(x) == IF x < 0 THEN -x ELSE x

Signum(x) == IF x > 0 THEN 1 ELSE IF x < 0 THEN -1 ELSE 0

\* The result of a &mut self method: the state it leaves and its return value.
R(s, ret) == [s |-> s, ret |-> ret]

(***************************************************************************)
(* ChessPiece                                                              *)
(***************************************************************************)
ChessPieceNew ==
  [piece_id |-> 0, color |-> 0, has_moved |-> FALSE, has_moved_two |-> FALSE]

ChessPieceWhite(id) ==
  [piece_id |-> id, color |-> -1, has_moved |-> FALSE, has_moved_two |-> FALSE]

ChessPieceBlack(id) ==
  [piece_id |-> id, color |-> 1, has_moved |-> FALSE, has_moved_two |-> FALSE]

\* Piece ids of the back rank, files a..h (lines 74-81 and 83-90).
BackRank == <<2, 3, 4, 5, 6, 4, 3, 2>>

NewBoard ==
  [i \in Squares |->
     IF i < 8 THEN ChessPieceBlack(BackRank[i + 1])
     ELSE IF i < 16 THEN ChessPieceBlack(1)
     ELSE IF i >= 56 THEN ChessPieceWhite(BackRank[i - 55])
     ELSE IF i >= 48 THEN ChessPieceWhite(1)
     ELSE ChessPieceNew]

\* ChessBoard::new(): the fields of a fresh board.
ChessBoardNew ==
  [board |-> NewBoard,
   game_started |-> FALSE,
   game_end |-> FALSE,
   white_turn |-> TRUE,
   en_passant |-> FALSE,
   white_castling |-> <<TRUE, TRUE>>,
   black_castling |-> <<TRUE, TRUE>>,
   white_king_index |-> 60,
   black_king_index |-> 4]

\* ChessBoard::reset(): every field but en_passant is reinitialised.
ResetBoard(cb) ==
  [cb EXCEPT !.board = NewBoard,
             !.game_started = FALSE,
             !.game_end = FALSE,
             !.white_turn = TRUE,
             !.white_castling = <<TRUE, TRUE>>,
             !.black_castling = <<TRUE, TRUE>>,
             !.white_king_index = 60,
             !.black_king_index = 4]

(***************************************************************************)
(* Execution record of one call.  While a call runs, the state record      *)
(* carries three more fields next to the ChessBoard fields:                *)
(*   panic    - the call has aborted: an array index outside 0..63, or     *)
(*              unbounded recursion (stack exhaustion);                    *)
(*   ovf      - a usize subtraction went below zero: a build with overflow *)
(*              checks aborts there, a build without them wraps;           *)
(*   restored - every simulation finished so far has left the board and    *)
(*              the en_passant marker as it found them.                    *)
(***************************************************************************)
Enter(cb) == cb @@ [panic |-> FALSE, ovf |-> FALSE, restored |-> TRUE]

Leave(s) ==
  [board |-> s.board,
   game_started |-> s.game_started,
   game_end |-> s.game_end,
   white_turn |-> s.white_turn,
   en_passant |-> s.en_passant,
   white_castling |-> s.white_castling,
   black_castling |-> s.black_castling,
   white_king_index |-> s.white_king_index,
   black_king_index |-> s.black_king_index]

Panic(s) == [s EXCEPT !.panic = TRUE]

(***************************************************************************)
(* Small helpers (lines 780-798).                                          *)
(***************************************************************************)
is_tile_empty(s, index) == s.board[index].piece_id = 0

is_tile_same_color(s, index, piece_index) ==
  s.board[index].color = s.board[piece_index].color

index_file(index) == index % 8

index_rank(index) == (index - (index % 8)) \div 8

\* self.board.swap(a, b)
Swap(board, a, b) == [board EXCEPT ![a] = board[b], ![b] = board[a]]

(***************************************************************************)
(* Pawns.                                                                  *)
(***************************************************************************)
check_en_passant(s, from, to) ==
  LET piece == s.board[from]
      t == to - piece.color * 8
  IN IF t < 0 \/ t > 63 THEN R(s, FALSE)
     ELSE LET target == s.board[t]
          IN IF target.piece_id # 1 \/ piece.color = target.color THEN R(s, FALSE)
             ELSE IF ~target.has_moved_two THEN R(s, FALSE)
             ELSE R([s EXCEPT !.en_passant = TRUE], TRUE)

\* Lines 330-338: TRUE when the range test returns false from check_pawn_move.
\* For a pawn that is not black the test is `to > from - 7 || to < from - 9` on
\* usize: a difference below zero wraps to a value above every index (or
\* aborts, see ovf), so the first comparison is false and the second true.
PawnOutOfRange(s, from, to) ==
  IF s.board[from].color = 1
  THEN to > from + 9 \/ to < from + 7
  ELSE IF from < 7 THEN TRUE
       ELSE IF to > from - 7 THEN TRUE
       ELSE IF from < 9 THEN TRUE
       ELSE to < from - 9

\* Lines 330-338: TRUE when one of the two usize subtractions is evaluated
\* with a result below zero (`||` is evaluated left to right).
PawnRangeOverflows(s, from, to) ==
  IF s.board[from].color = 1 THEN FALSE
  ELSE IF from < 7 THEN TRUE
       ELSE IF to > from - 7 THEN FALSE
       ELSE from < 9

\* Lines 340-356 of check_pawn_move, ep being what check_en_passant returned.
PawnAfterEnPassant(ep, from, to) ==
  LET color == ep.s.board[from].color
  IN IF /\ ~ep.ret
        /\ (is_tile_empty(ep.s, to) \/ is_tile_same_color(ep.s, to, from))
        /\ to # from + color * 8
     THEN R(ep.s, FALSE)
     ELSE IF to = from + color * 8 /\ ~is_tile_empty(ep.s, to)
     THEN R(ep.s, FALSE)
     ELSE R([ep.s EXCEPT !.board[from].has_moved_two = FALSE,
                         !.board[from].has_moved = TRUE], TRUE)

\* Lines 330-356 of check_pawn_move, s1 being s with the overflow noted.
PawnAfterRange(s1, from, to) ==
  IF PawnOutOfRange(s1, from, to) THEN R(s1, FALSE)
  ELSE PawnAfterEnPassant(check_en_passant(s1, from, to), from, to)

check_pawn_move(s, from, to) ==
  IF /\ ~s.board[from].has_moved
     /\ to = from + s.board[from].color * 16
     /\ is_tile_empty(s, to)
  THEN R([s EXCEPT !.board[from].has_moved = TRUE,
                   !.board[from].has_moved_two = TRUE], TRUE)
  ELSE PawnAfterRange([s EXCEPT !.ovf = @ \/ PawnRangeOverflows(s, from, to)], from, to)

\* promote_pawn (lines 668-676): only ever promotes to a queen.
promote_pawn(s, from, to) ==
  IF \/ (s.board[from].color = 1 /\ to > 55 /\ to < 64)
     \/ (s.board[from].color = -1 /\ to < 8)
  THEN [s EXCEPT !.board[from].piece_id = 5]
  ELSE s

(***************************************************************************)
(* Rook, knight, bishop: these read the board and write nothing.           *)
(***************************************************************************)
\* A variant of check_rook_move without the walk of lines 383-390: the
\* squares between from and to are not looked at.
check_rook_move_unobstructed(s, from, to) ==
  /\ ~(index_file(from) # index_file(to) /\ index_rank(from) # index_rank(to))
  /\ ~is_tile_same_color(s, to, from)

\* Lines 383-390: the squares the while loop visits, from + dir up to but not
\* including to (from and to share a rank or a file here, so it ends at to).
RookPath(from, to, dir) ==
  {from + k * dir : k \in 1..((Abs(to - from) \div Abs(dir)) - 1)}

check_rook_move(s, from, to) ==
  LET file == index_file(from)
      rank == index_rank(from)
      t_file == index_file(to)
      t_rank == index_rank(to)
  IN IF (file # t_file /\ rank # t_rank) \/ is_tile_same_color(s, to, from)
     THEN FALSE
     ELSE LET dir == IF file = t_file THEN Signum(t_rank - rank) * 8
                     ELSE Signum(t_file - file)
          IN /\ \A i \in RookPath(from, to, dir) : is_tile_empty(s, i)
             /\ ~is_tile_same_color(s, to, from)

\* Lines 410-419: the eight candidate indices, in the order of the array.
KnightOffsets == <<-17, -15, -10, -6, 17, 15, 10, 6>>

\* A variant of lines 421-453 that overwrites for the rank only: the leaps
\* that leave the board across the a-file or the h-file stay in the array.
KnightMasked_by_rank_only(file, rank) ==
  (IF rank < 2 THEN {0, 1} ELSE {}) \cup
  (IF rank < 1 THEN {2, 3} ELSE {}) \cup
  (IF rank > 5 THEN {4, 5} ELSE {}) \cup
  (IF rank > 6 THEN {6, 7} ELSE {})

\* Lines 421-453: the positions of the array (counted from 0, as in the
\* source) that are overwritten with i8::MAX for a knight on (file, rank).
KnightMasked(file, rank) ==
  (IF file < 2 THEN {2, 7} ELSE {}) \cup
  (IF file < 1 THEN {0, 5} ELSE {}) \cup
  (IF file > 5 THEN {3, 6} ELSE {}) \cup
  (IF file > 6 THEN {1, 4} ELSE {}) \cup
  (IF rank < 2 THEN {0, 1} ELSE {}) \cup
  (IF rank < 1 THEN {2, 3} ELSE {}) \cup
  (IF rank > 5 THEN {4, 5} ELSE {}) \cup
  (IF rank > 6 THEN {6, 7} ELSE {})

check_knight_move(s, from, to) ==
  LET file == index_file(from)
      rank == index_rank(from)
      indices == {from + KnightOffsets[k + 1] : k \in (0..7) \ KnightMasked(file, rank)}
  IN ~(to \notin indices \/ is_tile_same_color(s, to, from))

\* Lines 482-498: the while loop of check_bishop_move, entered at index i.
RECURSIVE BishopWalk(_, _, _, _, _, _, _)
BishopWalk(s, from, to, inc, i, last_file, last_rank) ==
  IF ~(i >= 0 /\ i < 64) THEN FALSE
  ELSE IF i = to /\ ~is_tile_same_color(s, from, to) THEN TRUE
  ELSE IF \/ Abs(last_file - index_file(i)) # 1
          \/ Abs(last_rank - index_rank(i)) # 1 THEN FALSE
  ELSE IF ~is_tile_empty(s, i) THEN FALSE
  ELSE BishopWalk(s, from, to, inc, i + inc, index_file(i), index_rank(i))

check_bishop_move(s, from, to) ==
  LET dir == Signum(index_rank(to) - index_rank(from)) * 8
      step == Signum(index_file(to) - index_file(from))
  IN IF dir = 0 \/ step = 0 THEN FALSE
     ELSE BishopWalk(s, from, to, dir + step, from + dir + step,
                     index_file(from), index_rank(from))

(***************************************************************************)
(* King moves and the attack test.  is_move_legal, check_king_move and     *)
(* simulate_check call one another; depth counts the simulate_check frames *)
(* that are open.                                                          *)
(***************************************************************************)
\* Lines 517-524: the offsets the loop of check_king_move visits.
KingOffsets == {-9, -8, -7, -1, 0, 1, 7, 8, 9}

\* Lines 526-537: current_index = from + i is on the board and next to from.
KingReach(from, i) ==
  LET current_index == from + i
  IN /\ ~(current_index > 63 \/ current_index < 0)
     /\ ~(\/ Abs(index_file(current_index) - index_file(from)) > 1
          \/ Abs(index_rank(current_index) - index_rank(from)) > 1)

RECURSIVE is_move_legal(_, _, _, _)
RECURSIVE check_king_move(_, _, _, _)
RECURSIVE simulate_check(_, _, _, _)
RECURSIVE SimulateCheckLoop(_, _, _, _, _)
RECURSIVE SimulateCheckStep(_, _, _, _, _)

\* Lines 565-568: the indices the for loop does not skip, in the order it
\* visits them.  (No move test changes a piece_id or a color, so the set is
\* the same throughout the loop.)
SquareSeq == [i \in 1..64 |-> i - 1]

Candidates(s, test_color) ==
  SelectSeq(SquareSeq,
            LAMBDA i : ~(s.board[i].piece_id = 0 \/ s.board[i].color # test_color))

\* Lines 565-572: the for loop of simulate_check, entered at the k-th of the
\* indices it does not skip.
SimulateCheckLoop(s, cand, index, depth, k) ==
  IF k > Len(cand) \/ s.panic THEN R(s, FALSE)
  ELSE SimulateCheckStep(is_move_legal(s, cand[k], index, depth), cand, index, depth, k)

\* Lines 569-571: legal is what is_move_legal(i, index) returned.
SimulateCheckStep(legal, cand, index, depth, k) ==
  IF legal.ret THEN R(legal.s, TRUE)
  ELSE SimulateCheckLoop(legal.s, cand, index, depth, k + 1)

\* A simulation that started in state s has ended with result done: note
\* whether it left the board and the en_passant marker as they were.
Simulated(s, done) ==
  R([done.s EXCEPT !.restored =
       @ /\ done.s.board = s.board /\ done.s.en_passant = s.en_passant],
    done.ret)

\* simulate_check(white, index).  A third open frame has the arguments and
\* the state of the first one (a piece test that wrote anything returned true
\* and ended the loop), so the recursion never ends: the stack is exhausted
\* and the process aborts.
simulate_check(s, white, index, depth) ==
  IF depth >= 2 THEN R(Panic(s), TRUE)
  ELSE Simulated(s, SimulateCheckLoop(s, Candidates(s, IF white THEN 1 ELSE -1),
                                      index, depth + 1, 1))

\* Lines 541-545: the king move is legal when the attack test returns false.
Negated(chk) == R(chk.s, ~chk.ret)

\* The loop of lines 517-549 reaches `current_index == to` for the one offset
\* i = to - from, and only then does anything.
check_king_move(s, from, to, depth) ==
  IF /\ (to - from) \in KingOffsets
     /\ KingReach(from, to - from)
     /\ ~is_tile_same_color(s, to, from)
  THEN Negated(simulate_check(s, s.board[from].color = -1, to, depth))
  ELSE R(s, FALSE)

is_move_legal(s, from, to, depth) ==
  LET id == s.board[from].piece_id
  IN IF id = 1 THEN check_pawn_move(s, from, to)
     ELSE IF id = 2 THEN R(s, check_rook_move(s, from, to))
     ELSE IF id = 3 THEN R(s, check_knight_move(s, from, to))
     ELSE IF id = 4 THEN R(s, check_bishop_move(s, from, to))
     ELSE IF id = 5 THEN R(s, check_bishop_move(s, from, to) \/ check_rook_move(s, from, to))
     ELSE IF id = 6 THEN check_king_move(s, from, to, depth)
     ELSE R(s, FALSE)

(***************************************************************************)
(* Checkmate test (lines 585-634).                                         *)
(***************************************************************************)
\* The offsets in the order the while loop visits them; i == 0 is skipped.
MateOffsets == <<-9, -8, -7, -1, 1, 7, 8, 9>>

\* Lines 617-620: the king is put on current_index, what stood there is removed.
KingPlaced(s, index, current_index) ==
  [s EXCEPT !.board =
     Swap([s.board EXCEPT ![current_index] = ChessPieceNew], index, current_index)]

\* Lines 627-628: the king is put back and tmp is put back on current_index.
KingReverted(s, index, current_index, tmp) ==
  [s EXCEPT !.board = [Swap(s.board, index, current_index) EXCEPT ![current_index] = tmp]]

RECURSIVE SimulateCheckmateLoop(_, _, _, _, _)
RECURSIVE SimulateCheckmateStep(_, _, _, _, _, _)

\* The while loop of simulate_checkmate, entered at the k-th offset: the
\* state it leaves and the ways_out vector it leaves.
SimulateCheckmateLoop(s, white, index, k, ways_out) ==
  IF k > Len(MateOffsets) \/ s.panic THEN [s |-> s, ret |-> ways_out]
  ELSE IF \/ ~KingReach(index, MateOffsets[k])
          \/ is_tile_same_color(s, index + MateOffsets[k], index)
  THEN SimulateCheckmateLoop(s, white, index, k + 1, ways_out)
  ELSE SimulateCheckmateStep(
         simulate_check(KingPlaced(s, index, index + MateOffsets[k]),
                        white, index + MateOffsets[k], 0),
         s.board[index + MateOffsets[k]], white, index, k, ways_out)

\* Lines 623-630: chk is what simulate_check returned, tmp the piece removed.
SimulateCheckmateStep(chk, tmp, white, index, k, ways_out) ==
  SimulateCheckmateLoop(KingReverted(chk.s, index, index + MateOffsets[k], tmp),
                        white, index, k + 1,
                        IF chk.ret THEN ways_out
                        ELSE Append(ways_out, index + MateOffsets[k]))

\* Line 633: ways_out.is_empty()
WaysOutEmpty(done) == R(done.s, done.ret = <<>>)

simulate_checkmate(s, white, index) ==
  WaysOutEmpty(Simulated(s, SimulateCheckmateLoop(s, white, index, 1, <<>>)))

(***************************************************************************)
(* Castling (lines 684-757).                                               *)
(***************************************************************************)
\* A variant of update_castling_rights that derives each right from where
\* the king and the rook stand now instead of only ever clearing it.
update_castling_rights_by_position(s) ==
  LET b == s.board
  IN [s EXCEPT !.white_castling = <<b[56].piece_id = 2 /\ b[60].piece_id = 6,
                                    b[63].piece_id = 2 /\ b[60].piece_id = 6>>,
               !.black_castling = <<b[0].piece_id = 2 /\ b[4].piece_id = 6,
                                    b[7].piece_id = 2 /\ b[4].piece_id = 6>>]

update_castling_rights(s) ==
  LET b == s.board
      wq == b[56].piece_id # 2 /\ b[60].piece_id = 6
      wk == b[63].piece_id # 2 /\ b[60].piece_id = 6
      bq == b[0].piece_id # 2 /\ b[4].piece_id = 6
      bk == b[7].piece_id # 2 /\ b[4].piece_id = 6
  IN [s EXCEPT !.white_castling = <<@[1] /\ ~wq, @[2] /\ ~wk>>,
               !.black_castling = <<@[1] /\ ~bq, @[2] /\ ~bk>>]

\* Lines 705-716: the right asked for has been lost.
CastlingRightLost(s, white, queen_side) ==
  \/ (white /\ queen_side /\ ~s.white_castling[1])
  \/ (white /\ ~queen_side /\ ~s.white_castling[2])
  \/ (~white /\ queen_side /\ ~s.black_castling[1])
  \/ (~white /\ ~queen_side /\ ~s.black_castling[2])

\* Lines 718-720.
CastleKingPos(white) == IF white THEN 60 ELSE 4

CastleSteps(queen_side) == IF queen_side THEN 4 ELSE 3

CastleDir(queen_side) == IF queen_side THEN -1 ELSE 1

\* Lines 730-754: the two swaps, the king index and the rights.
CastleBoard(s, white, queen_side) ==
  LET king_pos == CastleKingPos(white)
      steps == CastleSteps(queen_side)
      dir == CastleDir(queen_side)
      b2 == Swap(Swap(s.board, king_pos, king_pos + 2 * dir),
                 king_pos + steps * dir, king_pos + dir)
  IN IF white
     THEN [s EXCEPT !.board = b2, !.white_king_index = king_pos + 2 * dir,
                    !.white_castling = <<FALSE, FALSE>>]
     ELSE [s EXCEPT !.board = b2, !.black_king_index = king_pos + 2 * dir,
                    !.black_castling = <<FALSE, FALSE>>]

\* Lines 730-756: chk2 is what the attack test of the king's landing square returned.
CastleAfterLanding(chk2, white, queen_side) ==
  IF chk2.ret THEN R(chk2.s, FALSE)
  ELSE R(CastleBoard(chk2.s, white, queen_side), TRUE)

\* Lines 722-756: chk1 is what the attack test of the king's square returned.
CastleAfterKingTest(chk1, white, queen_side) ==
  LET king_pos == CastleKingPos(white)
      dir == CastleDir(queen_side)
  IN IF chk1.ret THEN R(chk1.s, FALSE)
     ELSE IF \E i \in 1..(CastleSteps(queen_side) - 1) :
               ~is_tile_empty(chk1.s, king_pos + i * dir)
     THEN R(chk1.s, FALSE)
     ELSE CastleAfterLanding(simulate_check(chk1.s, white, king_pos + 2 * dir, 0),
                             white, queen_side)

attempt_castling(s, white, queen_side) ==
  IF CastlingRightLost(s, white, queen_side) THEN R(s, FALSE)
  ELSE CastleAfterKingTest(simulate_check(s, white, CastleKingPos(white), 0),
                           white, queen_side)

(***************************************************************************)
(* update (lines 764-778) and move_by_index (lines 191-273).               *)
(***************************************************************************)
\* A variant of lines 772-777 that assigns the outcome of the test to
\* game_end instead of only ever setting it.
UpdateAfterBlack_assigned(m2) ==
  [m2.s EXCEPT !.game_end = m2.ret]

\* Lines 772-777, m2 being what simulate_checkmate(false, ..) returned.
UpdateAfterBlack(m2) ==
  IF m2.ret THEN [m2.s EXCEPT !.game_end = TRUE] ELSE m2.s

\* Lines 772-777, m1 being what simulate_checkmate(true, ..) returned; `||`
\* runs the test of the black king only when the first one returned false.
UpdateAfterWhite(m1) ==
  IF m1.ret THEN [m1.s EXCEPT !.game_end = TRUE]
  ELSE UpdateAfterBlack(simulate_checkmate(m1.s, FALSE, m1.s.black_king_index))

\* Lines 772-777, s1 being the state after update_castling_rights.
UpdateCheckmate(s1) ==
  UpdateAfterWhite(simulate_checkmate(s1, TRUE, s1.white_king_index))

update(s) ==
  UpdateCheckmate(update_castling_rights(
    [s EXCEPT !.white_turn = ~s.white_turn, !.game_started = TRUE]))

\* A variant of RejectedEarly without the two tests of the side to move
\* (lines 203-211).
RejectedEarly_turn_unchecked(s, from, to) ==
  \/ from = to
  \/ (~s.game_started /\ s.board[from].color = 1)
  \/ is_tile_empty(s, from)

\* Lines 191-215: the call is turned down before any move test is made.
RejectedEarly(s, from, to) ==
  \/ from = to
  \/ (~s.game_started /\ s.board[from].color = 1)
  \/ (s.board[from].color = -1 /\ ~s.white_turn)
  \/ (s.board[from].color = 1 /\ s.white_turn)
  \/ is_tile_empty(s, from)

\* Lines 217-240: the castling this pair of indices asks for, if any, as
\* <<white, queen_side>>.
CastlingRequest(from, to) ==
  IF from = 4 /\ to = 0 THEN <<FALSE, TRUE>>
  ELSE IF from = 4 /\ to = 7 THEN <<FALSE, FALSE>>
  ELSE IF from = 60 /\ to = 56 THEN <<TRUE, TRUE>>
  ELSE IF from = 60 /\ to = 63 THEN <<TRUE, FALSE>>
  ELSE <<>>

\* Lines 247-255: a king move records the king's index and drops the rights.
KingBookkeeping(s, from, to) ==
  IF s.board[from].piece_id # 6 THEN s
  ELSE IF s.board[from].color = -1
  THEN [s EXCEPT !.white_king_index = to, !.white_castling = <<FALSE, FALSE>>]
  ELSE [s EXCEPT !.black_king_index = to, !.black_castling = <<FALSE, FALSE>>]

\* Lines 257-259.
Promotion(s, from, to) ==
  IF s.board[from].piece_id = 1 THEN promote_pawn(s, from, to) ELSE s

\* Lines 261-266: removal of the captured piece.  The index of line 263 is
\* to + 8 or to - 8: outside the board the write aborts the call.
Capture(s, from, to) ==
  IF ~is_tile_same_color(s, to, from) /\ s.en_passant
  THEN IF (to - s.board[from].color * 8) \notin Squares
       THEN Panic([s EXCEPT !.en_passant = FALSE])
       ELSE [s EXCEPT !.en_passant = FALSE,
                      !.board[to - s.board[from].color * 8] = ChessPieceNew]
  ELSE IF ~is_tile_same_color(s, to, from)
  THEN [s EXCEPT !.board[to] = ChessPieceNew]
  ELSE s

\* Lines 268-269.
KingTakenAndSwap(s, from, to) ==
  [s EXCEPT !.game_end = @ \/ s.board[to].piece_id = 6,
            !.board = Swap(s.board, from, to)]

\* Lines 268-272, s3 being the state after the capture.
Finish(s3, from, to) ==
  IF s3.panic THEN R(s3, FALSE)
  ELSE R(update(KingTakenAndSwap(s3, from, to)), TRUE)

\* Lines 242-272, legal being what is_move_legal(from, to) returned.
Commit(legal, from, to) ==
  IF ~legal.ret THEN R(legal.s, FALSE)
  ELSE Finish(Capture(Promotion(KingBookkeeping(legal.s, from, to), from, to),
                      from, to),
              from, to)

\* Lines 242-272: the part of move_by_index after the castling attempts.
CommitMove(s, from, to) == Commit(is_move_legal(s, from, to, 0), from, to)

\* Lines 217-272, castle being what attempt_castling returned.
AfterCastling(castle, from, to) ==
  IF castle.ret THEN R(update(castle.s), TRUE)
  ELSE CommitMove(castle.s, from, to)

\* Lines 242-266 when `to` is no index of the board (from is one).  No castling
\* is asked for, and the move test of the piece on `from` either returns false
\* without reading board[to] or reads it, which aborts the call:
\*   pawn   - the double step test (line 323) and, for a black pawn, every
\*            path past the range test (lines 342, 346, 261) read board[to];
\*            for a white pawn the range test returns false;
\*   rook, queen - line 373 reads board[to] when the files are equal (the
\*            rank of `to` is never the rank of `from`);
\*   knight, bishop, king - `to` is none of the squares they compare with.
ToOutside(s, from, to) ==
  LET id == s.board[from].piece_id
  IN IF id = 1
     THEN IF ~s.board[from].has_moved /\ to = from + s.board[from].color * 16
          THEN R(Panic(s), FALSE)
          ELSE IF PawnOutOfRange(s, from, to)
          THEN R([s EXCEPT !.ovf = @ \/ PawnRangeOverflows(s, from, to)], FALSE)
          ELSE R(Panic(s), FALSE)
     ELSE IF id \in {2, 5} /\ index_file(from) = index_file(to)
     THEN R(Panic(s), FALSE)
     ELSE R(s, FALSE)

\* move_by_index(from, to) for any two indices up to MaxIndex.  Line 192 reads
\* no square; line 197 reads board[from], which aborts the call when from is
\* no index of the board.
move_by_index(s, from, to) ==
  IF from = to THEN R(s, FALSE)
  ELSE IF from \notin Squares THEN R(Panic(s), FALSE)
  ELSE IF RejectedEarly(s, from, to) THEN R(s, FALSE)
  ELSE IF to \notin Squares THEN ToOutside(s, from, to)
  ELSE IF CastlingRequest(from, to) = <<>> THEN CommitMove(s, from, to)
  ELSE AfterCastling(attempt_castling(s, CastlingRequest(from, to)[1],
                                      CastlingRequest(from, to)[2]),
                     from, to)

\* u8::to_ascii_lowercase
to_ascii_lowercase(b) == IF b \in 65..90 THEN b + 32 ELSE b

\* `as i8` of a byte
AsI8(b) == IF b >= 128 THEN b - 256 ELSE b

\* Lines 150-153: byte k of the string, lowercased, as i8.
AlgebraicByte(str, k) == AsI8(to_ascii_lowercase(str[k]))

\* Lines 172-173: the index of the square written as the two-byte string str.
AlgebraicIndex(str) ==
  AlgebraicByte(str, 1) - 97 + Abs(AlgebraicByte(str, 2) - 56) * 8

\* Lines 155-170: one of the four range tests turns the string down.
AlgebraicOutOfRange(str) ==
  \/ AlgebraicByte(str, 1) < 97 \/ AlgebraicByte(str, 1) > 104
  \/ AlgebraicByte(str, 2) < 49 \/ AlgebraicByte(str, 2) > 56

\* move_by_algebraic (lines 139-176); a string is the sequence of its bytes.
\* as_bytes()[1] (lines 151, 153) is out of bounds for a one-byte string.
move_by_algebraic(s, from, to) ==
  IF Len(from) = 0 \/ Len(from) > 2 THEN R(s, FALSE)
  ELSE IF Len(to) = 0 \/ Len(to) > 2 THEN R(s, FALSE)
  ELSE IF Len(from) < 2 \/ Len(to) < 2 THEN R(Panic(s), FALSE)
  ELSE IF AlgebraicOutOfRange(from) \/ AlgebraicOutOfRange(to) THEN R(s, FALSE)
  ELSE move_by_index(s, AlgebraicIndex(from), AlgebraicIndex(to))

(***************************************************************************)
(* The state machine: one ChessBoard and its caller.                       *)
(*   cb       - the ChessBoard;                                            *)
(*   op       - the last operation called: "new", "move" or "reset";       *)
(*   ret      - what the last move_by_index call returned;                 *)
(*   moved    - the last call that returned true: its arguments, the piece *)
(*              that stood on `from`, the side that was to move and        *)
(*              whether it was carried out as a castle;                    *)
(*   restored - the simulations of the last call restored what they        *)
(*              touched;                                                   *)
(*   aborted  - the process has aborted inside a call;                     *)
(*   disturbed - the home squares of the kings and rooks whose piece has   *)
(*              moved, been taken or been replaced since new() or reset(); *)
(*   hist, free, resets - the caller: the opening played so far, the       *)
(*              number of calls made off the opening, the resets made.     *)
(***************************************************************************)
VARIABLES cb, op, ret, moved, restored, aborted, disturbed, hist, free, resets

vars == <<cb, op, ret, moved, restored, aborted, disturbed, hist, free, resets>>

\* The caller makes at most MaxFree calls of its own choice in a run, after
\* any prefix of one of the openings below, and calls reset at most
\* MaxResets times.
MaxFree == 1

MaxResets == 1

\* The indices a caller passes are 0..MaxIndex (usize): the last ones are
\* beyond the board.
MaxIndex == 64

\* Openings, as the (from, to) pairs handed to move_by_index.
Openings ==
  { \* 1.e3 d6 2.Bb5+ a6 3.Bxe8
    << <<52, 44>>, <<11, 19>>, <<61, 25>>, <<8, 16>>, <<25, 4>> >>,
    \* 1.e4 d5 2.e5 f5 3.exf6 (en passant)
    << <<52, 36>>, <<11, 27>>, <<36, 28>>, <<13, 29>>, <<28, 21>> >>,
    \* 1.e4 d5 2.Ke2 d4
    << <<52, 36>>, <<11, 27>>, <<60, 52>>, <<27, 35>> >>,
    \* 1.e4 d5 2.Ke2 a6 3.Ke3 a5
    << <<52, 36>>, <<11, 27>>, <<60, 52>>, <<8, 16>>, <<52, 44>>, <<16, 24>> >>,
    \* 1.Nf3 Nf6 2.g3 g6 3.Bg2 Bg7 4.O-O O-O
    << <<62, 45>>, <<6, 21>>, <<54, 46>>, <<14, 22>>, <<61, 54>>, <<5, 14>>,
       <<60, 63>>, <<4, 7>> >> }

\* Further openings, played by the caller of SpecLines.
Lines ==
  { \* 1.e4 b6 2.g3 Ba6 3.Bg2 h6 4.Nf3 h5 5.O-O
    << <<52, 36>>, <<9, 17>>, <<54, 46>>, <<2, 16>>, <<61, 54>>, <<15, 23>>,
       <<62, 45>>, <<23, 31>>, <<60, 63>> >>,
    \* 1.a4 b5 2.axb5 a6 3.Rxa6 h6 4.Rxa8
    << <<48, 32>>, <<9, 25>>, <<32, 25>>, <<8, 16>>, <<56, 16>>, <<15, 23>>,
       <<16, 0>> >>,
    \* 1.e3 Nc6 2.Ba6 Nd4 3.Nf3 Nxc2 4.h3 Nxe1 5.a3
    << <<52, 44>>, <<1, 18>>, <<61, 16>>, <<18, 35>>, <<62, 45>>, <<35, 50>>,
       <<55, 47>>, <<50, 60>>, <<48, 40>> >>,
    \* 1.e4 a5 2.Qh5
    << <<52, 36>>, <<8, 24>>, <<59, 31>> >>,
    \* 1.b4 a5 2.b5 Ra6 3.bxa6 h6 4.a7 h5
    << <<49, 33>>, <<8, 24>>, <<33, 25>>, <<0, 16>>, <<25, 16>>, <<15, 23>>,
       <<16, 8>>, <<23, 31>> >>,
    \* 1.b4 a5 2.b5 Ra6 3.b6 h6 4.bxc7 h5 5.cxb8=Q
    << <<49, 33>>, <<8, 24>>, <<33, 25>>, <<0, 16>>, <<25, 17>>, <<15, 23>>,
       <<17, 10>>, <<23, 31>>, <<10, 1>> >> }

\* The moves that continue the opening played so far.
NextOf(lines, h) ==
  {l[Len(h) + 1] : l \in {x \in lines : Len(x) > Len(h) /\ SubSeq(x, 1, Len(h)) = h}}

NextBook(h) == NextOf(Openings, h)

NoMove == [from |-> 0, to |-> 0, piece |-> ChessPieceNew, white_turn |-> TRUE, castle |-> FALSE]

Init ==
  /\ cb = ChessBoardNew
  /\ op = "new"
  /\ ret = FALSE
  /\ moved = NoMove
  /\ restored = TRUE
  /\ aborted = FALSE
  /\ disturbed = {}
  /\ hist = <<>>
  /\ free = 0
  /\ resets = 0

\* The home squares of the rooks and kings (lines 74, 78, 81, 83, 87, 90).
HomeSquares == {0, 4, 7, 56, 60, 63}

\* The call was carried out by attempt_castling (lines 217-240).
Castled(s, from, to) ==
  /\ ~RejectedEarly(s, from, to)
  /\ CastlingRequest(from, to) # <<>>
  /\ attempt_castling(s, CastlingRequest(from, to)[1], CastlingRequest(from, to)[2]).ret

\* cb.move_by_index(from, to) returns, r being what the call computed.
Returns(r, from, to) ==
  /\ ~r.s.panic
  /\ cb' = Leave(r.s)
  /\ op' = "move"
  /\ ret' = r.ret
  /\ restored' = r.s.restored
  /\ moved' = IF r.ret
              THEN [from |-> from, to |-> to, piece |-> cb.board[from],
                    white_turn |-> cb.white_turn,
                    castle |-> Castled(Enter(cb), from, to)]
              ELSE moved
  /\ disturbed' = disturbed \cup {h \in HomeSquares : r.s.board[h] # cb.board[h]}
  /\ UNCHANGED aborted

\* cb.move_by_index(from, to) aborts: an index out of bounds or stack
\* exhaustion in every build, a usize overflow in a build that checks for it.
Aborts(r) ==
  /\ r.s.panic \/ r.s.ovf
  /\ aborted' = TRUE
  /\ op' = "move"
  /\ UNCHANGED <<cb, ret, moved, restored, disturbed>>

\* One call of move_by_index and its outcome.
Call(from, to) ==
  LET r == move_by_index(Enter(cb), from, to)
  IN Returns(r, from, to) \/ Aborts(r)

\* The caller plays the next move of an opening on a board that was never reset.
BookMove ==
  /\ ~aborted
  /\ free = 0
  /\ resets = 0
  /\ \E m \in NextBook(hist) :
       /\ Call(m[1], m[2])
       /\ hist' = Append(hist, m)
  /\ UNCHANGED <<free, resets>>

\* Some pair of indices is turned down by lines 192-215.
SomeRejectedEarly ==
  ~(\A from \in Squares, to \in Squares : ~RejectedEarly(cb, from, to))

\* A call turned down by lines 192-215: move_by_index returns false before it
\* has written anything, whatever the indices that made it so.
EarlyReject ==
  /\ SomeRejectedEarly
  /\ op' = "move"
  /\ ret' = FALSE
  /\ restored' = TRUE
  /\ UNCHANGED <<cb, moved, aborted, disturbed>>

\* A call that gets past lines 192-215.
TestedCall ==
  \E from \in Squares, to \in Squares :
    /\ ~RejectedEarly(cb, from, to)
    /\ Call(from, to)

\* A call with an index that is none of the board's.
OutsideCall ==
  \E from \in 0..MaxIndex, to \in 0..MaxIndex :
    /\ from \notin Squares \/ to \notin Squares
    /\ Call(from, to)

\* The strings a caller passes to move_by_algebraic, as byte sequences:
\* "", "a", "e2", "e4", "E2", "e7", "e8", "i2", "`2", "e9", "e0", "2e",
\* "\u00e9" (two bytes in UTF-8) and "e22".
Strings ==
  { <<>>, <<97>>, <<101, 50>>, <<101, 52>>, <<69, 50>>, <<101, 55>>,
    <<101, 56>>, <<105, 50>>, <<96, 50>>, <<101, 57>>, <<101, 48>>,
    <<50, 101>>, <<195, 169>>, <<101, 50, 50>> }

\* One call of move_by_algebraic and its outcome.
AlgebraicCall ==
  \E from \in Strings, to \in Strings :
    LET r == move_by_algebraic(Enter(cb), from, to)
    IN IF r.ret
       THEN Returns(r, AlgebraicIndex(from), AlgebraicIndex(to)) \/ Aborts(r)
       ELSE Returns(r, 0, 0) \/ Aborts(r)

\* The caller makes a call of its own choice, with any two indices or strings.
FreeMove ==
  /\ ~aborted
  /\ free < MaxFree
  /\ EarlyReject \/ TestedCall \/ OutsideCall \/ AlgebraicCall
  /\ free' = free + 1
  /\ UNCHANGED <<hist, resets>>

\* The caller calls reset(); what is recorded of the earlier calls is dropped.
Reset ==
  /\ ~aborted
  /\ resets < MaxResets
  /\ cb' = ResetBoard(cb)
  /\ op' = "reset"
  /\ ret' = FALSE
  /\ moved' = NoMove
  /\ restored' = TRUE
  /\ disturbed' = {}
  /\ hist' = <<>>
  /\ resets' = resets + 1
  /\ UNCHANGED <<aborted, free>>

Next == BookMove \/ FreeMove \/ Reset

Spec == Init /\ [][Next]_vars

\* The same caller with the further openings to play from.
LineMove ==
  /\ ~aborted
  /\ free = 0
  /\ resets = 0
  /\ \E m \in NextOf(Openings \cup Lines, hist) :
       /\ Call(m[1], m[2])
       /\ hist' = Append(hist, m)
  /\ UNCHANGED <<free, resets>>

NextLines == LineMove \/ FreeMove \/ Reset

SpecLines == Init /\ [][NextLines]_vars

(***************************************************************************)
(* The move tests of the pieces on boards of the caller's making: one       *)
(* white rook, knight, bishop or queen on any square, alone or with one     *)
(* pawn of either colour on any other square, and one call of             *)
(* is_move_legal from that square to any other.                            *)
(***************************************************************************)
\* The piece ids whose move tests are probed (lines 288-301).
ProbeKinds == {2, 3, 4, 5}

\* A board with a white piece of the given kind on from and, unless other is
\* from, a pawn of the given colour on other.
ProbeBoard(from, kind, other, color) ==
  [i \in Squares |->
     IF i = from THEN ChessPieceWhite(kind)
     ELSE IF i = other
     THEN (IF color = 1 THEN ChessPieceBlack(1) ELSE ChessPieceWhite(1))
     ELSE ChessPieceNew]

ProbeInit ==
  /\ \E from \in Squares, kind \in ProbeKinds, other \in Squares, color \in {-1, 1} :
       /\ cb = [ChessBoardNew EXCEPT !.board = ProbeBoard(from, kind, other, color)]
       /\ moved = [NoMove EXCEPT !.from = from, !.to = from,
                                 !.piece = ChessPieceWhite(kind)]
  /\ op = "board"
  /\ ret = FALSE
  /\ restored = TRUE
  /\ aborted = FALSE
  /\ disturbed = {}
  /\ hist = <<>>
  /\ free = 0
  /\ resets = 0

\* is_move_legal(from, to) is called for the piece on from and any other
\* square to.
Probe ==
  /\ op = "board"
  /\ \E to \in Squares \ {moved.from} :
       LET r == is_move_legal(Enter(cb), moved.from, to, 0)
       IN /\ cb' = Leave(r.s)
          /\ ret' = r.ret
          /\ moved' = [moved EXCEPT !.to = to]
  /\ op' = "probe"
  /\ UNCHANGED <<restored, aborted, disturbed, hist, free, resets>>

SpecPieces == ProbeInit /\ [][Probe]_vars

(***************************************************************************)
(* The rules of chess, stated on a board alone and independently of the    *)
(* move tests above.  They are what the properties below measure the       *)
(* engine against.                                                         *)
(***************************************************************************)
\* The squares strictly between p and q, which share a rank, file or diagonal.
ChessBetween(p, q) ==
  LET df == index_file(q) - index_file(p)
      dr == index_rank(q) - index_rank(p)
      n == IF Abs(df) > Abs(dr) THEN Abs(df) ELSE Abs(dr)
  IN {p + k * (Signum(dr) * 8 + Signum(df)) : k \in 1..(n - 1)}

\* The piece on p attacks square q.
ChessAttacks(b, p, q) ==
  LET df == index_file(q) - index_file(p)
      dr == index_rank(q) - index_rank(p)
      id == b[p].piece_id
      line == df = 0 \/ dr = 0
      diagonal == Abs(df) = Abs(dr)
      clear == \A i \in ChessBetween(p, q) : b[i].piece_id = 0
  IN /\ p # q
     /\ \/ id = 1 /\ dr = b[p].color /\ Abs(df) = 1
        \/ id = 2 /\ line /\ clear
        \/ id = 3 /\ {Abs(df), Abs(dr)} = {1, 2}
        \/ id = 4 /\ diagonal /\ clear
        \/ id = 5 /\ (line \/ diagonal) /\ clear
        \/ id = 6 /\ Abs(df) <= 1 /\ Abs(dr) <= 1

Kings(b, color) == {i \in Squares : b[i].piece_id = 6 /\ b[i].color = color}

\* A king of the given colour is attacked by a piece of the other colour.
ChessInCheck(b, color) ==
  \E k \in Kings(b, color) :
    \E p \in Squares : b[p].color = -color /\ ChessAttacks(b, p, k)

\* The pawn on p may take the pawn beside it en passant by moving to q: that
\* pawn has just made its double step (last is the last committed move).
ChessEnPassant(b, last, p, q) ==
  LET victim == q - b[p].color * 8
  IN /\ b[p].piece_id = 1
     /\ b[q].piece_id = 0
     /\ index_rank(q) - index_rank(p) = b[p].color
     /\ Abs(index_file(q) - index_file(p)) = 1
     /\ victim \in Squares
     /\ b[victim].piece_id = 1 /\ b[victim].color = -b[p].color
     /\ last.to = victim /\ last.piece.piece_id = 1 /\ Abs(last.to - last.from) = 16

\* The piece on p may go to q, its own king's safety left aside.
ChessStep(b, last, p, q) ==
  LET c == b[p].color
      home == IF c = 1 THEN 1 ELSE 6
  IN IF b[p].piece_id = 1
     THEN \/ q = p + c * 8 /\ b[q].piece_id = 0
          \/ /\ q = p + c * 16 /\ index_rank(p) = home
             /\ b[p + c * 8].piece_id = 0 /\ b[q].piece_id = 0
          \/ ChessAttacks(b, p, q) /\ b[q].color = -c
          \/ ChessEnPassant(b, last, p, q)
     ELSE ChessAttacks(b, p, q) /\ b[q].color # c

\* The board after the piece on p has gone to q.
ChessAfter(b, last, p, q) ==
  IF ChessEnPassant(b, last, p, q)
  THEN [b EXCEPT ![q] = b[p], ![p] = ChessPieceNew,
                 ![q - b[p].color * 8] = ChessPieceNew]
  ELSE [b EXCEPT ![q] = b[p], ![p] = ChessPieceNew]

\* The side of the given colour has a legal move.  (Castling is left out: when
\* it is legal, so is the king's step onto the square it crosses.)
ChessHasLegalMove(b, last, color) ==
  \E p \in Squares :
    /\ b[p].piece_id # 0 /\ b[p].color = color
    /\ \E q \in Squares :
         /\ q # p
         /\ ChessStep(b, last, p, q)
         /\ ~ChessInCheck(ChessAfter(b, last, p, q), color)

SideToMove(white_turn) == IF white_turn THEN -1 ELSE 1

\* The last operation was a move_by_index call that returned true.
Accepted == op = "move" /\ ~aborted /\ ret

(***************************************************************************)
(* Properties.                                                             *)
(***************************************************************************)
\* C1: after every move_by_index call that returns true, the king of the side
\* that just moved is not attacked by any enemy piece on the resulting board.
MoverKingNotInCheck ==
  Accepted => ~ChessInCheck(cb.board, moved.piece.color)

\* C2: whenever move_by_index returns false, the complete game state (all 64
\* squares with the pieces' flags, the side to move, game_started, game_end,
\* the castling rights, the en_passant marker and both king indices) is
\* exactly what it was before the call.
RejectedCallKeepsState ==
  [][(op' = "move" /\ ~aborted' /\ ~ret') => cb' = cb]_vars

\* The same piece, whatever its flags.
SamePiece(a, b) == a.piece_id = b.piece_id /\ a.color = b.color

\* The moved piece p reaches square to as a queen.
FramePromoted(p, to) ==
  p.piece_id = 1 /\ ((p.color = 1 /\ to > 55) \/ (p.color = -1 /\ to < 8))

\* The square of the pawn taken en passant by the move from -> to, if it is one.
FrameEnPassantSquares(b, from, to) ==
  IF b[from].piece_id = 1 /\ index_file(to) # index_file(from) /\ b[to].piece_id = 0
  THEN {to - b[from].color * 8} \cap Squares
  ELSE {}

\* The board a is turned into the board c by the move from -> to.
FrameHolds(a, c, from, to) ==
  /\ c[from].piece_id = 0
  /\ c[to].color = a[from].color
  /\ c[to].piece_id = (IF FramePromoted(a[from], to) THEN 5 ELSE a[from].piece_id)
  /\ \A i \in FrameEnPassantSquares(a, from, to) : c[i].piece_id = 0
  /\ \A i \in Squares \ ({from, to} \cup FrameEnPassantSquares(a, from, to)) :
       SamePiece(c[i], a[i])

\* C3: after a move_by_index call that returns true and is not a castle, the
\* origin square is empty, the destination holds the moved piece (a queen if
\* it was promoted), the square of a pawn taken en passant is empty, and every
\* other square holds the piece it held before the call.
NonCastleMoveFrame ==
  [][(op' = "move" /\ ~aborted' /\ ret' /\ ~moved'.castle)
       => FrameHolds(cb.board, cb'.board, moved'.from, moved'.to)]_vars

\* C4: in every state reached from new() by committed moves, game_end is true
\* if and only if the side to move has no legal move.
GameEndIffNoLegalMove ==
  ~aborted =>
    (cb.game_end <=> ~ChessHasLegalMove(cb.board, moved, SideToMove(cb.white_turn)))

\* C5: in every reachable state the board holds exactly one white king and
\* exactly one black king.
OneKingPerSide ==
  Cardinality(Kings(cb.board, -1)) = 1 /\ Cardinality(Kings(cb.board, 1)) = 1

\* C6: a pawn's has_moved_two flag is true only in the state that immediately
\* follows that pawn's own committed two-square advance: the flagged square is
\* where the last committed move, a pawn's double step, ended.
MovedTwoLivesOnePly ==
  \A i \in Squares :
    cb.board[i].has_moved_two =>
      /\ ~moved.castle
      /\ moved.to = i
      /\ moved.piece.piece_id = 1
      /\ Abs(moved.to - moved.from) = 16

\* C7: the simulations run inside move_by_index restore the state exactly:
\* when each one finishes, every square holds the same piece with the same
\* flags as before it started and the en_passant marker has its prior value.
SimulationsRestoreState ==
  (op = "move" /\ ~aborted) => restored

\* C8: once game_end is true, every later move_by_index call returns false and
\* changes nothing, until reset() is called.
NoMoveAfterGameEnd ==
  [][(cb.game_end /\ op' = "move" /\ ~aborted') => (~ret' /\ cb' = cb)]_vars

\* One call of move_by_index keeps to the turn order: a call that returns true
\* moved a piece of the side to move and flips the side to move, a call that
\* returns false leaves the side to move as it was.
TurnKept ==
  (op' = "move" /\ ~aborted') =>
    IF ret'
    THEN /\ moved'.piece.color = SideToMove(cb.white_turn)
         /\ cb'.white_turn = ~cb.white_turn
    ELSE cb'.white_turn = cb.white_turn

\* C9: committed moves strictly alternate between the sides, starting with
\* White after new() or reset(): a call returns true only when the piece on
\* the origin square belongs to the side to move, every call that returns true
\* (castling included) flips the side to move exactly once, and a call that
\* returns false leaves the side to move unchanged.
SidesAlternate ==
  /\ [](op \in {"new", "reset"} => cb.white_turn)
  /\ [][TurnKept]_vars

\* Black has castled on its turn, after White's castle, and White is to move.
SidesAlternateWitness ==
  /\ Accepted
  /\ moved.castle /\ ~moved.white_turn /\ moved.piece.color = 1
  /\ cb.white_turn
  /\ Len(hist) = 8

\* The four castling rights: white queen side, white king side, black queen
\* side, black king side.
CastlingFlags(c) ==
  <<c.white_castling[1], c.white_castling[2], c.black_castling[1], c.black_castling[2]>>

\* C10: each of the four castling-rights flags is monotonic: once it is false
\* it stays false through any sequence of move_by_index calls.
CastlingRightsMonotonic ==
  [][op' = "move" =>
       \A k \in 1..4 : CastlingFlags(cb')[k] => CastlingFlags(cb)[k]]_vars

\* The white king has left e1 and come back to it, both rooks at home, and
\* both of White's rights are still false.
CastlingRightsMonotonicWitness ==
  /\ Accepted
  /\ moved.piece.piece_id = 6 /\ moved.piece.color = -1 /\ moved.to = 60
  /\ cb.board[60].piece_id = 6
  /\ cb.board[56].piece_id = 2 /\ cb.board[63].piece_id = 2
  /\ cb.white_castling = <<FALSE, FALSE>>

\* A piece of the given colour attacks square q.
ChessAttacked(b, q, color) ==
  \E p \in Squares : b[p].color = color /\ ChessAttacks(b, p, q)

\* The squares of the king in a castle asked for as from -> to: where it
\* starts, the square it passes over and the square it lands on.
CastleKingSquares(from, to) ==
  {from, from + Signum(to - from), from + 2 * Signum(to - from)}

\* C11: a castling move is never accepted when the king's starting square,
\* the square the king passes over, or the square the king lands on is
\* attacked by an enemy piece.
NoCastleThroughCheck ==
  [][(op' = "move" /\ ~aborted' /\ ret' /\ moved'.castle)
       => \A q \in CastleKingSquares(moved'.from, moved'.to) :
            ~ChessAttacked(cb.board, q, -SideToMove(cb.white_turn))]_vars

\* The wing of the k-th castling right (in the order of CastlingFlags): the
\* colour of the side, the king's home square and the rook's corner square.
CastlingWing(k) ==
  <<[color |-> -1, king |-> 60, rook |-> 56],
    [color |-> -1, king |-> 60, rook |-> 63],
    [color |-> 1, king |-> 4, rook |-> 0],
    [color |-> 1, king |-> 4, rook |-> 7]>>[k]

\* C12: in every reachable state, if a castling-rights flag is true then the
\* king of that side stands on its home square and a rook of that same side
\* stands on the corner square of that wing, and neither of the two has ever
\* moved.
RightImpliesKingAndRookAtHome ==
  \A k \in 1..4 :
    CastlingFlags(cb)[k] =>
      LET w == CastlingWing(k)
      IN /\ cb.board[w.king].piece_id = 6 /\ cb.board[w.king].color = w.color
         /\ cb.board[w.rook].piece_id = 2 /\ cb.board[w.rook].color = w.color
         /\ w.king \notin disturbed
         /\ w.rook \notin disturbed

\* The squares strictly between the king's home square and the rook's corner.
CastleBetween(from, to) ==
  {q \in Squares : (from < q /\ q < to) \/ (to < q /\ q < from)}

\* The right of the wing asked for as from -> to is true in c.
CastleRight(c, from, to) ==
  IF from = 60 THEN (IF to = 56 THEN c.white_castling[1] ELSE c.white_castling[2])
  ELSE (IF to = 0 THEN c.black_castling[1] ELSE c.black_castling[2])

\* The call from -> to, made in c by the side of the given colour and
\* answered with true in d, is a castle as the rules have it.
CastleAsRuled(c, d, from, to, color) ==
  LET dir == Signum(to - from)
  IN /\ <<from, to>> \in {<<60, 56>>, <<60, 63>>, <<4, 0>>, <<4, 7>>}
     /\ c.board[from].piece_id = 6 /\ c.board[from].color = color
     /\ \A q \in CastleBetween(from, to) : c.board[q].piece_id = 0
     /\ CastleRight(c, from, to)
     /\ d.board[from + 2 * dir].piece_id = 6 /\ d.board[from + 2 * dir].color = color
     /\ d.board[from + dir].piece_id = 2 /\ d.board[from + dir].color = color
     /\ d.board[from].piece_id = 0 /\ d.board[to].piece_id = 0
     /\ (IF color = -1 THEN d.white_castling ELSE d.black_castling) = <<FALSE, FALSE>>

\* C13: castling is requested as a move of the king from its home square to
\* the home square of the rook; it is accepted only if every square between
\* king and rook is empty and that wing's right is still true, and when it is
\* accepted the king ends two files toward the rook, the rook ends on the
\* square the king crossed, the two home squares are empty, and both castling
\* rights of the castling side are false.
CastleRelocatesKingAndRook ==
  [][(op' = "move" /\ ~aborted' /\ ret' /\ moved'.castle)
       => CastleAsRuled(cb, cb', moved'.from, moved'.to, SideToMove(cb.white_turn))]_vars

\* The call from -> to moves a pawn two ranks straight ahead.
TwoSquareAdvance(piece, from, to) ==
  piece.piece_id = 1 /\ to = from + piece.color * 16

\* C14: a pawn's two-square advance is accepted only if the pawn has never
\* moved and both the square it passes over and its destination are empty.
TwoSquareAdvanceOverEmptySquares ==
  [][(op' = "move" /\ ~aborted' /\ ret' /\ ~moved'.castle
        /\ TwoSquareAdvance(moved'.piece, moved'.from, moved'.to))
       => /\ ~cb.board[moved'.from].has_moved
          /\ cb.board[moved'.from + moved'.piece.color * 8].piece_id = 0
          /\ cb.board[moved'.to].piece_id = 0]_vars

\* The call from -> to has one of the shapes of a pawn move on the board b,
\* piece being the pawn on from.
PawnShape(b, piece, from, to) ==
  LET ahead == index_rank(to) - index_rank(from) = piece.color
      files == Abs(index_file(to) - index_file(from))
  IN \/ ahead /\ files = 0 /\ b[to].piece_id = 0
     \/ TwoSquareAdvance(piece, from, to)
     \/ /\ ahead /\ files = 1
        /\ \/ b[to].color = -piece.color
           \/ /\ b[to].piece_id = 0
              /\ b[to - piece.color * 8].piece_id = 1
              /\ b[to - piece.color * 8].color = -piece.color

\* C15: every accepted pawn move has one of the pawn shapes: a straight step
\* onto an empty square one rank forward, the two-square advance, or a move
\* one rank forward onto a neighbouring file that captures an enemy piece on
\* the destination or captures en passant onto an empty destination; a pawn
\* never moves to a square on its own rank or more than one file away.
PawnMovesHavePawnShape ==
  [][(op' = "move" /\ ~aborted' /\ ret' /\ ~moved'.castle
        /\ moved'.piece.piece_id = 1)
       => PawnShape(cb.board, moved'.piece, moved'.from, moved'.to)]_vars

\* The farthest rank for a pawn of the given colour.
FarRank(color) == IF color = 1 THEN 7 ELSE 0

\* The pawn on from, of the side to move, may step straight ahead by the
\* rules: the square ahead is on the board and empty, both kings stand, and
\* the step does not leave the mover's king attacked.
PawnMayStep(c, last, from) ==
  LET color == SideToMove(c.white_turn)
      to == from + color * 8
  IN /\ c.board[from].piece_id = 1 /\ c.board[from].color = color
     /\ to \in Squares
     /\ c.board[to].piece_id = 0
     /\ Kings(c.board, 1) # {} /\ Kings(c.board, -1) # {}
     /\ ~ChessInCheck(ChessAfter(c.board, last, from, to), color)

\* The call r of move_by_index(from, from + color * 8) returned true, with a
\* queen of the mover's colour on a destination of the farthest rank.
PawnStepTaken(r, color, to) ==
  /\ ~r.s.panic /\ ~r.s.ovf
  /\ r.ret
  /\ index_rank(to) = FarRank(color) =>
       r.s.board[to].piece_id = 5 /\ r.s.board[to].color = color

\* C16: for a pawn of the side to move standing on any square of the board, a
\* single forward step onto an empty square is accepted by move_by_index; when
\* the step lands on the farthest rank the destination holds a queen of the
\* mover's colour when the call returns.
PawnSingleStepAccepted ==
  (op = "move" /\ ~aborted) =>
    \A from \in Squares :
      PawnMayStep(cb, moved, from) =>
        PawnStepTaken(move_by_index(Enter(cb), from, from + SideToMove(cb.white_turn) * 8),
                      SideToMove(cb.white_turn), from + SideToMove(cb.white_turn) * 8)

\* C17: after reset() is called in any reachable state, the whole game state
\* equals the state produced by new(): the starting position with all piece
\* flags cleared, White to move, game not started, game_end false, all four
\* castling rights true, no en passant marker pending and the king indices on
\* e1 and e8.
ResetEqualsNew ==
  op = "reset" => cb = ChessBoardNew

TurnedDown(c, r) ==
  /\ ~r.s.panic /\ ~r.s.ovf
  /\ ~r.ret
  /\ Leave(r.s) = c

\* C19: move_by_index called with an origin or destination index outside
\* 0..63 returns false and leaves the game state unchanged; it never aborts.
OutOfRangeIndexRejected ==
  ~aborted =>
    \A from \in 0..MaxIndex, to \in 0..MaxIndex :
      (from \notin Squares \/ to \notin Squares) =>
        TurnedDown(cb, move_by_index(Enter(cb), from, to))

\* The last committed move m took a pawn to the farthest rank; the engine has
\* no operation that chooses the piece, so the promotion stays unresolved.
PromotionPending(m) ==
  /\ m.piece.piece_id = 1
  /\ ~m.castle
  /\ index_rank(m.to) = FarRank(m.piece.color)

\* C20: after a pawn's committed move reaches the farthest rank, every further
\* move attempt by either side is rejected until the promotion has been
\* resolved by choosing a piece; the turn does not pass to the opponent before
\* that.
PromotionHoldsTheGame ==
  [][/\ (PromotionPending(moved) /\ op' = "move" /\ ~aborted') => ~ret'
     /\ (op' = "move" /\ PromotionPending(moved'))
          => cb'.white_turn = moved'.white_turn]_vars

\* White may castle on the king's side by the rules: king on e1, rooks on a1
\* and h1, f1 and g1 empty, White to move, both white rights intact and no
\* black piece attacking e1, f1 or g1.
WhiteShortCastleReady(c) ==
  /\ c.board[60].piece_id = 6 /\ c.board[60].color = -1
  /\ c.board[56].piece_id = 2 /\ c.board[56].color = -1
  /\ c.board[63].piece_id = 2 /\ c.board[63].color = -1
  /\ c.board[61].piece_id = 0 /\ c.board[62].piece_id = 0
  /\ c.white_turn
  /\ c.white_castling = <<TRUE, TRUE>>
  /\ \A q \in {60, 61, 62} : ~ChessAttacked(c.board, q, 1)

\* The call r of move_by_index(60, 62) returned true, with the h1 rook on f1
\* and both white rights false.
WhiteShortCastleDone(r) ==
  /\ ~r.s.panic /\ ~r.s.ovf
  /\ r.ret
  /\ r.s.board[62].piece_id = 6 /\ r.s.board[62].color = -1
  /\ r.s.board[61].piece_id = 2 /\ r.s.board[61].color = -1
  /\ r.s.board[63].piece_id = 0
  /\ r.s.white_castling = <<FALSE, FALSE>>

\* C21: with the white king on e1, white rooks on a1 and h1, f1 and g1 empty,
\* White to move, white castling rights intact and no enemy piece attacking
\* e1, f1 or g1, the move from e1 to g1 is accepted, moves the h1 rook to f1
\* and makes both white castling rights false.
KingToG1Castles ==
  (~aborted /\ WhiteShortCastleReady(cb)) =>
    WhiteShortCastleDone(move_by_index(Enter(cb), 60, 62))

\* The string names a square: one file letter a to h, in either case,
\* followed by one rank digit 1 to 8.
WellFormedSquare(str) ==
  /\ Len(str) = 2
  /\ str[1] \in (97..104) \cup (65..72)
  /\ str[2] \in 49..56

\* The index of the square a well-formed string names: file + 8 * (8 - rank).
SquareNamed(str) ==
  (IF str[1] >= 97 THEN str[1] - 97 ELSE str[1] - 65) + 8 * (8 - (str[2] - 48))

\* C22: move_by_algebraic returns false and leaves the game state unchanged,
\* without aborting, for every pair of strings in which either string is not
\* exactly one file letter a to h (either case) followed by one rank digit 1
\* to 8, including empty, one-character and longer strings; for well-formed
\* squares it behaves exactly as move_by_index on index file + 8 * (8 - rank).
AlgebraicRejectsMalformed ==
  (op = "move" /\ ~aborted) =>
    \A from \in Strings, to \in Strings :
      IF WellFormedSquare(from) /\ WellFormedSquare(to)
      THEN move_by_algebraic(Enter(cb), from, to)
             = move_by_index(Enter(cb), SquareNamed(from), SquareNamed(to))
      ELSE TurnedDown(cb, move_by_algebraic(Enter(cb), from, to))

\* The king on from may step to to by the rules: to is next to from, holds no
\* piece of the king's colour, and no enemy piece attacks it once the king
\* stands there.
KingStepByRules(b, from, to) ==
  LET color == b[from].color
      after == [b EXCEPT ![to] = b[from], ![from] = ChessPieceNew]
  IN /\ to # from
     /\ Abs(index_file(to) - index_file(from)) <= 1
     /\ Abs(index_rank(to) - index_rank(from)) <= 1
     /\ b[to].color # color
     /\ ~ChessAttacked(after, to, -color)

\* The call r of move_by_index returned, and returned true exactly when ruled.
AnsweredAs(r, ruled) ==
  /\ ~r.s.panic /\ ~r.s.ovf
  /\ r.ret <=> ruled

\* C23: a non-castling king move is accepted if and only if the destination
\* is one of the squares adjacent to the king, is not occupied by a piece of
\* the king's own colour, and would not be attacked by any enemy piece once
\* the king stands there.
KingMoveIffSafeAdjacent ==
  (op = "move" /\ ~aborted) =>
    \A from \in Kings(cb.board, SideToMove(cb.white_turn)) :
      \A to \in Squares \ {from} :
        CastlingRequest(from, to) = <<>> =>
          AnsweredAs(move_by_index(Enter(cb), from, to),
                     KingStepByRules(cb.board, from, to))

\* The call r of move_by_index ran to its end: no board access outside 0..63,
\* no index computation below zero or beyond the type, no exhausted stack.
RanToEnd(r) == ~r.s.panic /\ ~r.s.ovf

\* C24: for every reachable state and every move_by_index call with origin
\* and destination in 0..63, all board accesses made during the call use an
\* index in 0..63 and no index computation underflows or overflows: the call
\* always returns true or false and never aborts.
CallsOnBoardNeverAbort ==
  (op = "move" /\ ~aborted) =>
    \A from \in Squares, to \in Squares :
      RanToEnd(move_by_index(Enter(cb), from, to))

\* The piece on from may go to to along from's rank or file by the rules:
\* every square strictly between is empty and to holds no piece of its colour.
LineMoveByRules(b, from, to) ==
  /\ index_file(from) = index_file(to) \/ index_rank(from) = index_rank(to)
  /\ \A i \in ChessBetween(from, to) : b[i].piece_id = 0
  /\ b[to].color # b[from].color

\* The same along one of from's diagonals.
DiagonalMoveByRules(b, from, to) ==
  /\ Abs(index_file(to) - index_file(from)) = Abs(index_rank(to) - index_rank(from))
  /\ \A i \in ChessBetween(from, to) : b[i].piece_id = 0
  /\ b[to].color # b[from].color

\* C25: for every board and every pair of distinct squares, check_rook_move
\* accepts exactly the moves along the origin's rank or file, and
\* check_bishop_move exactly the moves along one of the origin's diagonals
\* without wrapping across a board edge, for which every square strictly
\* between origin and destination is empty and the destination is not
\* occupied by a piece of the mover's colour; a queen move is accepted exactly
\* when one of the two accepts it.
SlidersMoveAsRuled ==
  (op = "probe" /\ moved.piece.piece_id \in {2, 4, 5}) =>
    /\ check_rook_move(Enter(cb), moved.from, moved.to)
         <=> LineMoveByRules(cb.board, moved.from, moved.to)
    /\ check_bishop_move(Enter(cb), moved.from, moved.to)
         <=> DiagonalMoveByRules(cb.board, moved.from, moved.to)
    /\ moved.piece.piece_id = 2 =>
         (ret <=> LineMoveByRules(cb.board, moved.from, moved.to))
    /\ moved.piece.piece_id = 4 =>
         (ret <=> DiagonalMoveByRules(cb.board, moved.from, moved.to))
    /\ moved.piece.piece_id = 5 =>
         (ret <=> \/ LineMoveByRules(cb.board, moved.from, moved.to)
                  \/ DiagonalMoveByRules(cb.board, moved.from, moved.to))

\* A rook, bishop or queen was probed on a move that runs up to an enemy
\* pawn standing at least two squares away, and the move was accepted.
SlidersMoveAsRuledWitness ==
  /\ op = "probe" /\ ret
  /\ moved.piece.piece_id \in {2, 4, 5}
  /\ cb.board[moved.to].color = 1
  /\ ChessBetween(moved.from, moved.to) # {}

\* to lies at a knight's leap from from (file and rank differ by 1 and 2 in
\* either order) and holds no piece of the colour of the piece on from.
KnightLeapByRules(b, from, to) ==
  /\ {Abs(index_file(to) - index_file(from)),
      Abs(index_rank(to) - index_rank(from))} = {1, 2}
  /\ b[to].color # b[from].color

\* C26: for every origin square and every destination square,
\* check_knight_move accepts the move if and only if the destination lies on
\* the board at a knight's leap from the origin, with no wrap-around across a
\* board edge, and is not occupied by a piece of the mover's colour.
KnightMovesAsRuled ==
  (op = "probe" /\ moved.piece.piece_id = 3) =>
    /\ check_knight_move(Enter(cb), moved.from, moved.to)
         <=> KnightLeapByRules(cb.board, moved.from, moved.to)
    /\ ret <=> KnightLeapByRules(cb.board, moved.from, moved.to)

\* A knight on the a-file or the h-file was probed on a leap onto an enemy
\* pawn, and the leap was accepted.
KnightMovesAsRuledWitness ==
  /\ op = "probe" /\ ret
  /\ moved.piece.piece_id = 3
  /\ index_file(moved.from) \in {0, 7}
  /\ cb.board[moved.to].color = 1

====
